---- MODULE Spec2Model ----
(***************************************************************************)
(* Model of the ESP32 file & OTA server (src/main.py).                     *)
(*                                                                         *)
(* Strings are sequences of tokens.  A token is a single character         *)
(* ("1", ".", "-", "/") or an indivisible run of letters ("rc", "post",    *)
(* "static_files").  The tokens of a resolved path do not start one        *)
(* another, so that a prefix test on the tokens of two resolved paths      *)
(* agrees with the prefix test on their characters.                        *)
(***************************************************************************)
EXTENDS Integers, Sequences, FiniteSets, TLC

VARIABLES mapping, ota_config, files, request, response, va, vb, vc, result

vars == <<mapping, ota_config, files, request, response, va, vb, vc, result>>

(***************************************************************************)
(* Bounds of the model.                                                    *)
(***************************************************************************)
\* longest release (number of dotted components) of the generated versions
MaxRel == 3
\* longest release of the versions used to check the laws of the order
MaxOrderRel == 2

(***************************************************************************)
(* Python values.                                                          *)
(***************************************************************************)
\* Python's None, as returned by dict.get for an absent key
None == <<"None">>

\* the empty str
EmptyStr == <<>>

\* "not x" of Python for a str or None: None and "" are falsy
Falsy(x) == x = None \/ x = EmptyStr

\* dict.get(key): the value, or None for an absent key
dict_get(d, k) == IF k \in DOMAIN d THEN d[k] ELSE None

(***************************************************************************)
(* packaging.version.parse and the ordering of Version (PEP 440).          *)
(***************************************************************************)
DigitVal == [d \in {"0", "1", "2", "3", "4", "5", "6", "7", "8", "9"} |->
              CASE d = "0" -> 0 [] d = "1" -> 1 [] d = "2" -> 2 [] d = "3" -> 3
                [] d = "4" -> 4 [] d = "5" -> 5 [] d = "6" -> 6 [] d = "7" -> 7
                [] d = "8" -> 8 [] d = "9" -> 9]

IsDigit(t) == t \in DOMAIN DigitVal

\* [-_\.]
Separators == {"-", "_", "."}

\* pre-release spellings and the letter they normalise to, as its rank a < b < rc
PreLetter == [w \in {"a", "alpha", "b", "beta", "c", "rc", "pre", "preview"} |->
               CASE w \in {"a", "alpha"} -> 1
                 [] w \in {"b", "beta"} -> 2
                 [] OTHER -> 3]

PostLetter == {"post", "rev", "r"}

DevLetter == {"dev"}

\* position following the run [0-9]* that starts at position i
RECURSIVE DigitsEnd(_, _)
DigitsEnd(s, i) ==
  IF i <= Len(s) /\ IsDigit(s[i]) THEN DigitsEnd(s, i + 1) ELSE i

\* int() that keeps the last digit only: the digits before it are dropped
int_last_digit(ds) == IF ds = <<>> THEN 0 ELSE DigitVal[ds[Len(ds)]]

\* int() of a run of decimal digits; the empty run counts 0 (absent number)
RECURSIVE int(_)
int(ds) ==
  IF ds = <<>> THEN 0
  ELSE 10 * int(SubSeq(ds, 1, Len(ds) - 1)) + DigitVal[ds[Len(ds)]]

\* position following (?:\.[0-9]+)* that starts at position i
RECURSIVE ReleaseEnd(_, _)
ReleaseEnd(s, i) ==
  IF i + 1 <= Len(s) /\ s[i] = "." /\ IsDigit(s[i + 1])
  THEN ReleaseEnd(s, DigitsEnd(s, i + 1))
  ELSE i

\* tuple(int(i) for i in release.split("."))
RECURSIVE ReleaseTuple(_)
ReleaseTuple(s) ==
  IF s = <<>> THEN <<>>
  ELSE LET e == DigitsEnd(s, 1)
       IN  <<int(SubSeq(s, 1, e - 1))>> \o
           (IF e > Len(s) THEN <<>> ELSE ReleaseTuple(SubSeq(s, e + 1, Len(s))))

\* [-_\.]? at position i
Sep(s, i) == IF i <= Len(s) /\ s[i] \in Separators THEN i + 1 ELSE i

NoMatch(i) == [ok |-> FALSE, val |-> None, end |-> i]

\* [-_\.]?(letter)[-_\.]?([0-9]+)? at position i, for the given spellings
MatchLetter(s, i, letters) ==
  LET j == Sep(s, i)
  IN  IF j <= Len(s) /\ s[j] \in letters
      THEN LET k == Sep(s, j + 1)
               e == DigitsEnd(s, k)
           IN  [ok |-> TRUE, val |-> <<s[j], int(SubSeq(s, k, e - 1))>>, end |-> e]
      ELSE NoMatch(i)

\* the pre group
MatchPre(s, i) ==
  LET m == MatchLetter(s, i, DOMAIN PreLetter)
  IN  IF m.ok THEN [m EXCEPT !.val = <<PreLetter[m.val[1]], m.val[2]>>] ELSE m

\* the post group: -N, or [-_\.]?(post|rev|r)[-_\.]?N?
MatchPost(s, i) ==
  IF i + 1 <= Len(s) /\ s[i] = "-" /\ IsDigit(s[i + 1])
  THEN LET e == DigitsEnd(s, i + 1)
       IN  [ok |-> TRUE, val |-> <<1, int(SubSeq(s, i + 1, e - 1))>>, end |-> e]
  ELSE LET m == MatchLetter(s, i, PostLetter)
       IN  IF m.ok THEN [m EXCEPT !.val = <<1, m.val[2]>>] ELSE m

\* the dev group
MatchDev(s, i) ==
  LET m == MatchLetter(s, i, DevLetter)
  IN  IF m.ok THEN [m EXCEPT !.val = <<1, m.val[2]>>] ELSE m

\* raised by parse for a string that is no PEP 440 version
InvalidVersion == [valid |-> FALSE]

\* version_parser.parse(s): the Version, or InvalidVersion.  The release and
\* the pre, post and dev groups of the PEP 440 pattern are matched in order,
\* each group optional; the strings used here have no "v" prefix, epoch,
\* local version or surrounding blanks, so those groups are left out.
parse(s) ==
  IF s = <<>> \/ ~IsDigit(s[1]) THEN InvalidVersion
  ELSE LET r    == ReleaseEnd(s, DigitsEnd(s, 1))
           pre  == MatchPre(s, r)
           post == MatchPost(s, pre.end)
           dev  == MatchDev(s, post.end)
       IN  IF dev.end # Len(s) + 1 THEN InvalidVersion
           ELSE [valid |-> TRUE,
                 release |-> ReleaseTuple(SubSeq(s, 1, r - 1)),
                 pre |-> pre.val, post |-> post.val, dev |-> dev.val]

\* the release without its trailing zeros
RECURSIVE StripZeros(_)
StripZeros(r) ==
  IF r # <<>> /\ r[Len(r)] = 0 THEN StripZeros(SubSeq(r, 1, Len(r) - 1)) ELSE r

NegativeInfinity == <<0, 0>>

\* the sort key of a Version: (release, pre, post, dev)
cmpkey(v) ==
  <<StripZeros(v.release),
    IF v.pre = None /\ v.post = None /\ v.dev # None THEN NegativeInfinity
    ELSE IF v.pre = None THEN <<4, 0>>
    ELSE v.pre,
    IF v.post = None THEN NegativeInfinity ELSE v.post,
    IF v.dev = None THEN <<2, 0>> ELSE v.dev>>

\* a < b for tuples of integers, as Python orders tuples
RECURSIVE TupleLess(_, _)
TupleLess(a, b) ==
  IF a = <<>> THEN b # <<>>
  ELSE IF b = <<>> THEN FALSE
  ELSE IF a[1] < b[1] THEN TRUE
  ELSE IF a[1] > b[1] THEN FALSE
  ELSE TupleLess(Tail(a), Tail(b))

\* k1 < k2 decided by any field, whatever the fields before it say
KeyLessAnyField(k1, k2) == \E i \in 1..Len(k1) : TupleLess(k1[i], k2[i])

\* k1 < k2 for sort keys: field by field, left to right
RECURSIVE KeyLess(_, _)
KeyLess(k1, k2) ==
  IF k1 = <<>> THEN FALSE
  ELSE IF TupleLess(k1[1], k2[1]) THEN TRUE
  ELSE IF TupleLess(k2[1], k1[1]) THEN FALSE
  ELSE KeyLess(Tail(k1), Tail(k2))

\* client_version > latest_version: equal versions are not up to date
version_gt(a, b) == KeyLess(cmpkey(b), cmpkey(a))

\* client_version >= latest_version
version_ge(a, b) == ~KeyLess(cmpkey(a), cmpkey(b))

\* the three-way comparison of two version strings
compare(a, b) ==
  LET x == parse(a)
      y == parse(b)
  IN  IF ~x.valid \/ ~y.valid THEN "InvalidVersionError"
      ELSE IF KeyLess(cmpkey(x), cmpkey(y)) THEN "LESS"
      ELSE IF KeyLess(cmpkey(y), cmpkey(x)) THEN "GREATER"
      ELSE "EQUAL"

(***************************************************************************)
(* Version strings given to the comparison.                                *)
(***************************************************************************)
DigitChar == <<"0", "1", "2", "3", "4", "5", "6", "7", "8", "9">>

\* the decimal numeral of a natural number
RECURSIVE Dec(_)
Dec(n) == IF n < 10 THEN <<DigitChar[n + 1]>> ELSE Dec(n \div 10) \o <<DigitChar[(n % 10) + 1]>>

\* the dotted string of a tuple of numbers
RECURSIVE Render(_)
Render(r) ==
  IF Len(r) = 1 THEN Dec(r[1])
  ELSE Render(SubSeq(r, 1, Len(r) - 1)) \o <<".">> \o Dec(r[Len(r)])

Numbers == {0, 1, 2, 9, 10}

OrderNumbers == {0, 1}

Tuples(S, n) == UNION {[1..k -> S] : k \in 1..n}

\* the numeric cores "N", "N.N", "N.N.N"
Cores == Tuples(Numbers, MaxRel)

NumericVersions == {Render(r) : r \in Cores}

\* pre-release identifiers in the sense of semantic versioning (after the "-")
PreReleaseIds == {<<"rc", "1">>, <<"alpha">>, <<"b", "2">>, <<"dev", "1">>,
                  <<"1">>, <<"post", "1">>}

\* suffixes of PEP 440: none, pre-release, post-release, development release
Pep440Suffixes == {<<>>, <<"a", "1">>, <<"rc", "1">>, <<".", "post", "1">>,
                   <<".", "dev", "1">>}

OrderVersions ==
  {Render(r) \o s : r \in Tuples(OrderNumbers, MaxOrderRel), s \in Pep440Suffixes}

(***************************************************************************)
(* The file system: posixpath and the storage directory.                   *)
(*                                                                         *)
(* A path string is a sequence of tokens; a resolved path is the sequence  *)
(* of its components below "/", each component a sequence of tokens.       *)
(***************************************************************************)
FILES_DIR == <<"static_files">>

\* the working directory of the server process, /srv
Cwd == <<<<"srv">>>>

StorageRoot == Cwd \o <<FILES_DIR>>

\* /srv/static_files2, a sibling of the storage directory
SiblingDir == Cwd \o <<FILES_DIR \o <<"2">>>>

\* the directories that exist
Dirs == {<<>>, Cwd, StorageRoot, SiblingDir, <<<<"etc">>>>}

\* the symbolic links that exist: /srv/static_files/link -> /etc
Symlinks == [p \in {StorageRoot \o <<<<"link">>>>} |-> <<<<"etc">>>>]

\* the places where a regular file may exist
FileCandidates == {StorageRoot \o <<<<"fw_v3.bin">>>>,
                   StorageRoot \o <<<<"fw_v2_0_1.bin">>>>,
                   SiblingDir \o <<<<"fw_v3.bin">>>>,
                   <<<<"etc">>, <<"passwd">>>>}

\* the file names an operator may write into a configuration document
Filenames == {<<"fw_v3.bin">>,
              <<"fw_v2_0_1.bin">>,
              <<"..", "/", "static_files", "2", "/", "fw_v3.bin">>,
              <<"..", "/", "..", "/", "etc", "/", "passwd">>,
              <<"/", "etc", "/", "passwd">>,
              <<"link", "/", "passwd">>}

isabs(p) == p # <<>> /\ p[1] = "/"

\* os.path.join(a, b)
join(a, b) ==
  IF isabs(b) THEN b
  ELSE IF a = <<>> \/ a[Len(a)] = "/" THEN a \o b
  ELSE a \o <<"/">> \o b

\* p.split("/")
RECURSIVE split(_)
split(p) ==
  IF \A i \in 1..Len(p) : p[i] # "/" THEN <<p>>
  ELSE LET i == CHOOSE k \in 1..Len(p) :
                  p[k] = "/" /\ \A j \in 1..(k - 1) : p[j] # "/"
       IN  <<SubSeq(p, 1, i - 1)>> \o split(SubSeq(p, i + 1, Len(p)))

\* resolution of the components one by one: "." and "" stay, ".." goes up,
\* a symbolic link is replaced by its target; ok records that every
\* directory passed through exists (what stat requires, realpath does not)
RECURSIVE walk(_, _)
walk(cur, comps) ==
  IF comps = <<>> THEN cur
  ELSE LET c == Head(comps)
           new == Append(cur.path, c)
           to == IF c = <<>> \/ c = <<".">> THEN cur.path
                 ELSE IF c = <<"..">>
                 THEN SubSeq(cur.path, 1, Len(cur.path) - 1)
                 ELSE IF new \in DOMAIN Symlinks THEN Symlinks[new]
                 ELSE new
       IN  walk([path |-> to, ok |-> cur.ok /\ cur.path \in Dirs], Tail(comps))

resolve(p) ==
  walk([path |-> IF isabs(p) THEN <<>> ELSE Cwd, ok |-> TRUE], split(p))

\* the string of a resolved path
RECURSIVE path_str(_)
path_str(cs) ==
  IF cs = <<>> THEN <<>> ELSE <<"/">> \o Head(cs) \o path_str(Tail(cs))

\* os.path.realpath(p), as a string
realpath(p) ==
  LET cs == resolve(p).path IN IF cs = <<>> THEN <<"/">> ELSE path_str(cs)

\* os.path.isfile(p)
isfile(p) == resolve(p).ok /\ resolve(p).path \in files

\* os.path.commonprefix((a, b)): the longest common leading substring
RECURSIVE commonprefix(_, _)
commonprefix(a, b) ==
  IF a = <<>> \/ b = <<>> \/ a[1] # b[1] THEN <<>>
  ELSE <<a[1]>> \o commonprefix(Tail(a), Tail(b))

(***************************************************************************)
(* The configuration documents.                                            *)
(***************************************************************************)
EmptyDict == [k \in {} |-> EmptyStr]

\* d[k] = v
dict_set(d, k, v) == [x \in DOMAIN d \cup {k} |-> IF x = k THEN v ELSE d[x]]

\* del d[k]
dict_del(d, k) == [x \in DOMAIN d \ {k} |-> d[x]]

\* a file that json.load accepts, holding doc
Document(doc) == [state |-> "ok", doc |-> doc]

\* a file that is absent ("missing") or no JSON ("malformed")
Broken(s) == [state |-> s, doc |-> EmptyDict]

LatestFirmware == <<"latest_firmware">>

OldFirmware == <<"old_firmware">>

Esp32 == <<"esp32-s3-generic">>

\* the policy records an operator may write: any subset of the two fields,
\* each a string, possibly empty
PolicyRecords(versions, names) ==
  {EmptyDict}
    \cup {[k \in {"latest_version"} |-> v] : v \in versions}
    \cup {[k \in {"filename"} |-> f] : f \in names}
    \cup {[k \in {"latest_version", "filename"} |->
             IF k = "latest_version" THEN vf[1] ELSE vf[2]] : vf \in versions \X names}

(***************************************************************************)
(* The responses.                                                          *)
(***************************************************************************)
\* raise HTTPException(status_code, detail); name is the name in the detail
HTTPException(status_code, detail, name) ==
  [status |-> status_code, detail |-> detail, filename |-> name]

\* FileResponse(path, media_type='application/octet-stream', filename)
FileResponse(filename) == [status |-> 200, detail |-> "file", filename |-> filename]

\* an exception no handler catches: the framework answers 500
Unhandled(exception) == [status |-> 500, detail |-> exception, filename |-> None]

NoResult == [ab |-> "none", ba |-> "none", bc |-> "none", ac |-> "none", aa |-> "none"]

\* no request handled yet
NoRequest == [route |-> "none", alias |-> EmptyStr, device_model |-> EmptyStr,
              current_version |-> EmptyStr, seq |-> 0]

NoResponse == [status |-> 0, detail |-> "none", filename |-> None]

(***************************************************************************)
(* The handlers.                                                           *)
(***************************************************************************)
\* get_filename_from_alias testing "filename is None": an empty name passes
get_filename_unless_none(alias) ==
  IF mapping.state = "missing"
  THEN [raised |-> TRUE, exc |-> HTTPException(500, "mapping_not_found", None)]
  ELSE IF mapping.state = "malformed"
  THEN [raised |-> TRUE, exc |-> HTTPException(500, "mapping_invalid", None)]
  ELSE LET filename == dict_get(mapping.doc, alias)
       IN  IF filename = None
           THEN [raised |-> TRUE, exc |-> HTTPException(404, "alias_not_found", alias)]
           ELSE [raised |-> FALSE, value |-> filename]

\* get_filename_from_alias(alias): the file name, or the exception raised
get_filename_from_alias(alias) ==
  IF mapping.state = "missing"
  THEN [raised |-> TRUE, exc |-> HTTPException(500, "mapping_not_found", None)]
  ELSE IF mapping.state = "malformed"
  THEN [raised |-> TRUE, exc |-> HTTPException(500, "mapping_invalid", None)]
  ELSE LET filename == dict_get(mapping.doc, alias)
       IN  IF Falsy(filename)
           THEN [raised |-> TRUE, exc |-> HTTPException(404, "alias_not_found", alias)]
           ELSE [raised |-> FALSE, value |-> filename]

\* the check of the path and the file response, as both handlers do it
send_file(filename, not_found) ==
  LET file_path == join(FILES_DIR, filename)
  IN  IF ~isfile(file_path)
      THEN HTTPException(404, not_found, filename)
      ELSE IF commonprefix(realpath(file_path), realpath(FILES_DIR)) # realpath(FILES_DIR)
      THEN HTTPException(403, "forbidden", None)
      ELSE FileResponse(filename)

\* the response of GET /request_file/{alias} with the answer to an alias
\* kept in memory: an alias answered with a file is answered with it again
request_file_cached(alias) ==
  IF request.route = "request_file" /\ request.alias = alias /\ response.detail = "file"
  THEN response
  ELSE LET r == get_filename_from_alias(alias)
       IN  IF r.raised THEN r.exc ELSE send_file(r.value, "file_not_found")

\* the response of GET /request_file/{alias}
request_file_response(alias) ==
  LET r == get_filename_from_alias(alias)
  IN  IF r.raised THEN r.exc ELSE send_file(r.value, "file_not_found")

\* the response of GET /ota?device_model=..&current_version=..
ota_response(device_model, current_version) ==
  IF ota_config.state = "missing"
  THEN HTTPException(500, "ota_config_not_found", None)
  ELSE IF ota_config.state = "malformed"
  THEN HTTPException(500, "ota_config_invalid", None)
  ELSE IF device_model \notin DOMAIN ota_config.doc
          \/ DOMAIN ota_config.doc[device_model] = {}
  THEN HTTPException(404, "no_policy", device_model)
  ELSE LET device_info == ota_config.doc[device_model]
           latest_version_str == dict_get(device_info, "latest_version")
           firmware_filename == dict_get(device_info, "filename")
       IN  IF Falsy(latest_version_str) \/ Falsy(firmware_filename)
           THEN HTTPException(500, "incomplete_policy", device_model)
           ELSE LET client_version == parse(current_version)
                    latest_version == parse(latest_version_str)
                IN  IF ~client_version.valid \/ ~latest_version.valid
                    THEN Unhandled("InvalidVersion")
                    ELSE IF version_ge(client_version, latest_version)
                    THEN [status |-> 304, detail |-> "not_modified", filename |-> None]
                    ELSE send_file(firmware_filename, "firmware_not_found")

\* one request is answered; seq tells it from the request before it
Respond(req, resp) ==
  /\ request' = [req EXCEPT !.seq = 1 - request.seq]
  /\ response' = resp
  /\ UNCHANGED <<mapping, ota_config, files, va, vb, vc, result>>

\* GET /request_file/{alias}
request_file_by_alias(alias) ==
  Respond([NoRequest EXCEPT !.route = "request_file", !.alias = alias],
          request_file_response(alias))

\* GET /ota
ota_update(device_model, current_version) ==
  Respond([NoRequest EXCEPT !.route = "ota", !.device_model = device_model,
                            !.current_version = current_version],
          ota_response(device_model, current_version))

\* GET /
read_root ==
  Respond([NoRequest EXCEPT !.route = "root"],
          [status |-> 200, detail |-> "welcome", filename |-> None])

(***************************************************************************)
(* The operators of the server, who edit the configuration files and the   *)
(* storage directory between requests.                                     *)
(***************************************************************************)
\* mapping.json is written with alias k mapped to v
set_alias(k, v) ==
  /\ mapping' = Document(dict_set(mapping.doc, k, v))
  /\ UNCHANGED <<ota_config, files, request, response, va, vb, vc, result>>

\* mapping.json is written without alias k
del_alias(k) ==
  /\ mapping.state = "ok" /\ k \in DOMAIN mapping.doc
  /\ mapping' = Document(dict_del(mapping.doc, k))
  /\ UNCHANGED <<ota_config, files, request, response, va, vb, vc, result>>

\* mapping.json is removed or damaged
break_mapping(s) ==
  /\ mapping' = Broken(s)
  /\ UNCHANGED <<ota_config, files, request, response, va, vb, vc, result>>

\* ota_config.json is written with the policy rec for model m
set_policy(m, rec) ==
  /\ ota_config' = Document(dict_set(ota_config.doc, m, rec))
  /\ UNCHANGED <<mapping, files, request, response, va, vb, vc, result>>

\* ota_config.json is written without model m
del_policy(m) ==
  /\ ota_config.state = "ok" /\ m \in DOMAIN ota_config.doc
  /\ ota_config' = Document(dict_del(ota_config.doc, m))
  /\ UNCHANGED <<mapping, files, request, response, va, vb, vc, result>>

\* ota_config.json is removed or damaged
break_ota_config(s) ==
  /\ ota_config' = Broken(s)
  /\ UNCHANGED <<mapping, files, request, response, va, vb, vc, result>>

\* a regular file appears at f
add_file(f) ==
  /\ f \notin files
  /\ files' = files \cup {f}
  /\ UNCHANGED <<mapping, ota_config, request, response, va, vb, vc, result>>

\* the regular file at f disappears
remove_file(f) ==
  /\ f \in files
  /\ files' = files \ {f}
  /\ UNCHANGED <<mapping, ota_config, request, response, va, vb, vc, result>>

\* the deployment at start: one alias, one device model, the files present
InitServer ==
  /\ mapping = Document(dict_set(EmptyDict, LatestFirmware, <<"fw_v3.bin">>))
  /\ ota_config = Document(dict_set(EmptyDict, Esp32,
                     [k \in {"latest_version", "filename"} |->
                        IF k = "latest_version" THEN <<"2", ".", "0", ".", "1">>
                        ELSE <<"fw_v2_0_1.bin">>]))
  /\ files = FileCandidates
  /\ request = NoRequest
  /\ response = NoResponse

InitCompare ==
  /\ InitServer
  /\ \/ va \in NumericVersions /\ vb \in NumericVersions
     \/ \E c \in NumericVersions, p \in PreReleaseIds :
          \/ va = c \o <<"-">> \o p /\ vb = c
          \/ va = c /\ vb = c \o <<"-">> \o p
  /\ vc = va
  /\ result = NoResult

\* compare(va, vb)
compare_versions ==
  /\ result = NoResult
  /\ result' = [NoResult EXCEPT !.ab = compare(va, vb)]
  /\ UNCHANGED <<mapping, ota_config, files, request, response, va, vb, vc>>

NextCompare == compare_versions

SpecCompare == InitCompare /\ [][NextCompare]_vars

InitOrder ==
  /\ InitServer
  /\ va \in OrderVersions /\ vb \in OrderVersions /\ vc \in OrderVersions
  /\ result = NoResult

\* the comparisons among va, vb and vc
order_versions ==
  /\ result = NoResult
  /\ result' = [ab |-> compare(va, vb), ba |-> compare(vb, va),
                bc |-> compare(vb, vc), ac |-> compare(va, vc),
                aa |-> compare(va, va)]
  /\ UNCHANGED <<mapping, ota_config, files, request, response, va, vb, vc>>

NextOrder == order_versions

SpecOrder == InitOrder /\ [][NextOrder]_vars


(***************************************************************************)
(* The server: both routes, the operators editing between requests.        *)
(***************************************************************************)
NoCompare == va = EmptyStr /\ vb = EmptyStr /\ vc = EmptyStr /\ result = NoResult

Init == InitServer /\ NoCompare

Unknown == <<"unknown">>

\* a few version strings: older, equal, newer, pre-release, unparsable
FewVersions == {<<"1", ".", "1", "0", ".", "0">>, <<"2", ".", "0", ".", "1">>,
                <<"3", ".", "0", ".", "0">>, <<"2", ".", "0", ".", "1", "-", "rc", "1">>,
                <<"x">>}

FewFilenames == {EmptyStr, <<"fw_v3.bin">>, <<"fw_v2_0_1.bin">>}

StorageFiles == {f \in FileCandidates : SubSeq(f, 1, Len(StorageRoot)) = StorageRoot}

BrokenStates == {"missing", "malformed"}

Next ==
  \/ \E a \in {LatestFirmware, Unknown} : request_file_by_alias(a)
  \/ \E m \in {Esp32, Unknown}, v \in FewVersions : ota_update(m, v)
  \/ read_root
  \/ \E v \in FewFilenames : set_alias(LatestFirmware, v)
  \/ del_alias(LatestFirmware)
  \/ \E s \in BrokenStates : break_mapping(s)
  \/ \E rec \in PolicyRecords({EmptyStr, <<"2", ".", "0", ".", "1">>}, FewFilenames \ {EmptyStr}) :
       set_policy(Esp32, rec)
  \/ del_policy(Esp32)
  \/ \E s \in BrokenStates : break_ota_config(s)
  \/ \E f \in StorageFiles : add_file(f)
  \/ \E f \in StorageFiles : remove_file(f)

Spec == Init /\ [][Next]_vars

(***************************************************************************)
(* The alias route alone, with every file name and every place of a file.  *)
(***************************************************************************)
NextFile ==
  \/ \E a \in {LatestFirmware, OldFirmware, Unknown} : request_file_by_alias(a)
  \/ \E k \in {LatestFirmware, OldFirmware}, v \in Filenames \cup {EmptyStr} : set_alias(k, v)
  \/ \E k \in {LatestFirmware, OldFirmware} : del_alias(k)
  \/ \E s \in BrokenStates : break_mapping(s)
  \/ \E f \in FileCandidates : add_file(f)
  \/ \E f \in FileCandidates : remove_file(f)

SpecFile == Init /\ [][NextFile]_vars

(***************************************************************************)
(* The OTA route alone, with every generated version string.               *)
(***************************************************************************)
\* the versions an operator may configure as latest_version
LatestVersions == {EmptyStr, <<"2", ".", "0", ".", "1">>, <<"1", ".", "1", "0">>, <<"x">>}

OtaNumbers == {0, 2}

\* the versions a device may report
DeviceVersions ==
  {Render(r) : r \in Tuples(OtaNumbers, MaxRel)}
    \cup {<<"1", ".", "1", "0", ".", "0">>, <<"1", ".", "9", ".", "0">>, <<"1", "0">>,
          <<"2", ".", "0", ".", "1">>, <<"3", ".", "0", ".", "0">>}
    \cup {<<"2", ".", "0", ".", "1">> \o s : s \in Pep440Suffixes}
    \cup {<<"2", ".", "0", ".", "1", "-">> \o p : p \in PreReleaseIds}
    \cup {EmptyStr, <<"x">>, <<"2", ".">>, <<"2", ".", "0", ".", "1", "-", "x">>}

OtaFilenames == {EmptyStr, <<"fw_v2_0_1.bin">>, <<"..", "/", "..", "/", "etc", "/", "passwd">>}

NextOta ==
  \/ \E v \in DeviceVersions : ota_update(Esp32, v)
  \/ \E v \in FewVersions : ota_update(Unknown, v)
  \/ \E rec \in PolicyRecords(LatestVersions, OtaFilenames) : set_policy(Esp32, rec)
  \/ del_policy(Esp32)
  \/ \E s \in BrokenStates : break_ota_config(s)

SpecOta == Init /\ [][NextOta]_vars

(***************************************************************************)
(* Properties.                                                              *)
(***************************************************************************)
\* this step answers a request of the given route
Handled(route) == request'.seq # request.seq /\ request'.route = route

\* the resolved path p lies below the resolved root, at a directory boundary
Inside(root, p) == Len(p) > Len(root) /\ SubSeq(p, 1, Len(root)) = root

\* the file name, joined to the storage directory and resolved, stays inside it
Contained(filename) ==
  Inside(resolve(FILES_DIR).path, resolve(join(FILES_DIR, filename)).path)

\* C1: a file is served only if its resolved path lies inside the resolved
\* storage root at a directory boundary; a path that merely shares the root
\* as a character prefix is never served.
C1_ServedOnlyInsideRoot ==
  response.detail = "file" => Contained(response.filename)

\* C2: an escaping path that names no file yields 403 and not 404: a
\* response "file not found" never concerns a file name that escapes the root.
C2_EscapeIsForbiddenBeforeExistence ==
  response.detail \in {"file_not_found", "firmware_not_found"}
    => Contained(response.filename)

\* the policy record of model m is present and has both fields non-empty
CompletePolicy(m) ==
  /\ ota_config.state = "ok"
  /\ m \in DOMAIN ota_config.doc
  /\ DOMAIN ota_config.doc[m] = {"latest_version", "filename"}
  /\ ota_config.doc[m]["latest_version"] # EmptyStr
  /\ ota_config.doc[m]["filename"] # EmptyStr

\* C3: for a model with a complete policy and a valid current_version, the
\* answer is 304 with no body exactly when compare(current, latest) is EQUAL
\* or GREATER, and otherwise the update carrying the policy's file name (the
\* file response for that name).
C3_UpToDateIffNotLess ==
  [][\A m \in {Esp32, Unknown} :
       (Handled("ota") /\ request'.device_model = m /\ CompletePolicy(m)) =>
         LET policy == ota_config.doc[m]
             order == compare(request'.current_version, policy["latest_version"])
         IN  /\ order \in {"EQUAL", "GREATER"} =>
                  response' = [status |-> 304, detail |-> "not_modified", filename |-> None]
             /\ order = "LESS" =>
                  /\ response'.status # 304
                  /\ response'.detail \in {"file", "firmware_not_found", "forbidden"}
                  /\ response'.detail # "forbidden" =>
                       response'.filename = policy["filename"]]_vars

\* C3 witness: a device on a version equal to the latest one was answered 304
C3_Witness ==
  /\ request.route = "ota"
  /\ request.current_version = <<"1", ".", "1", "0", ".", "0">>
  /\ response.status = 304

\* C4: an unparsable current_version, for a model with a complete policy,
\* is answered with the client error 400.
C4_InvalidVersionIs400 ==
  [][(/\ Handled("ota")
      /\ CompletePolicy(request'.device_model)
      /\ ~parse(request'.current_version).valid)
       => response'.status = 400]_vars

\* C5: a model whose key is present but whose record lacks a non-empty
\* latest_version or filename (the empty object included) is answered 500,
\* incomplete policy.
C5_IncompletePolicyIs500 ==
  [][(/\ Handled("ota")
      /\ ota_config.state = "ok"
      /\ request'.device_model \in DOMAIN ota_config.doc
      /\ ~CompletePolicy(request'.device_model))
       => response'.status = 500 /\ response'.detail = "incomplete_policy"]_vars

\* the numbers a numeric version string was written from
CoreOf == [s \in NumericVersions |-> CHOOSE r \in Cores : Render(r) = s]

\* the order of two tuples of integers, left to right, a missing component
\* counting as zero
RECURSIVE NumericOrder(_, _)
NumericOrder(r1, r2) ==
  IF r1 = <<>> /\ r2 = <<>> THEN "EQUAL"
  ELSE LET x == IF r1 = <<>> THEN 0 ELSE r1[1]
           y == IF r2 = <<>> THEN 0 ELSE r2[1]
       IN  IF x < y THEN "LESS"
           ELSE IF x > y THEN "GREATER"
           ELSE NumericOrder(IF r1 = <<>> THEN r1 ELSE Tail(r1),
                             IF r2 = <<>> THEN r2 ELSE Tail(r2))

\* C6: compare orders dotted numeric versions by their components as
\* integers, left to right, not by the characters; compare("2.0.1","1.10.0")
\* and compare("1.10.0","1.9.0") are GREATER.
C6_NumericNotLexical ==
  (result.ab # "none" /\ va \in NumericVersions /\ vb \in NumericVersions) =>
    /\ result.ab = NumericOrder(CoreOf[va], CoreOf[vb])
    /\ (va = <<"2", ".", "0", ".", "1">> /\ vb = <<"1", ".", "1", "0", ".", "0">>)
         => result.ab = "GREATER"
    /\ (va = <<"1", ".", "1", "0", ".", "0">> /\ vb = <<"1", ".", "9", ".", "0">>)
         => result.ab = "GREATER"

\* C6 witness: "2.0.1" was compared with "1.10.0"
C6_Witness ==
  /\ va = <<"2", ".", "0", ".", "1">>
  /\ vb = <<"1", ".", "1", "0", ".", "0">>
  /\ result.ab = "GREATER"

\* C7: compare is a total order on valid versions: compare(X, X) = EQUAL;
\* compare(X, Y) = LESS exactly when compare(Y, X) = GREATER; and if
\* compare(X, Y) and compare(Y, Z) are LESS or EQUAL, so is compare(X, Z).
C7_TotalOrder ==
  result.ab # "none" =>
    /\ result.aa = "EQUAL"
    /\ result.ab \in {"LESS", "EQUAL", "GREATER"}
    /\ result.ab = "LESS" <=> result.ba = "GREATER"
    /\ result.ab = "EQUAL" <=> result.ba = "EQUAL"
    /\ (result.ab \in {"LESS", "EQUAL"} /\ result.bc \in {"LESS", "EQUAL"})
         => result.ac \in {"LESS", "EQUAL"}

\* C7 witness: three different versions in strictly increasing order
C7_Witness ==
  /\ result.ab = "LESS" /\ result.bc = "LESS" /\ result.ac = "LESS"
  /\ result.ba = "GREATER"
  /\ parse(va).pre # None /\ parse(vb).dev # None /\ parse(vc).post # None

\* C8: resolve(A) is exactly the file name mapping.json maps A to; an alias
\* absent or mapped to an empty value is answered 404 alias unknown; a
\* missing or malformed mapping file is answered 500 for every alias.
C8_ResolveAlias ==
  [][Handled("request_file") =>
       LET alias == request'.alias
       IN  /\ mapping.state = "missing" =>
                response' = HTTPException(500, "mapping_not_found", None)
           /\ mapping.state = "malformed" =>
                response' = HTTPException(500, "mapping_invalid", None)
           /\ (mapping.state = "ok" /\ alias \notin DOMAIN mapping.doc) =>
                response' = HTTPException(404, "alias_not_found", alias)
           /\ (mapping.state = "ok" /\ alias \in DOMAIN mapping.doc) =>
                IF mapping.doc[alias] = EmptyStr
                THEN response' = HTTPException(404, "alias_not_found", alias)
                ELSE /\ response'.detail \in {"file", "file_not_found", "forbidden"}
                     /\ response'.detail # "forbidden" =>
                          response'.filename = mapping.doc[alias]]_vars

\* C8 witness: an alias added to the mapping was resolved and its file sent
C8_Witness ==
  /\ request.route = "request_file"
  /\ request.alias = OldFirmware
  /\ response.detail = "file"
  /\ response.filename = <<"fw_v2_0_1.bin">>

\* C9: a version with a pre-release suffix, c-p, is ordered strictly before
\* the same numeric core c without a suffix.
C9_PreReleaseBeforeRelease ==
  (/\ result.ab # "none"
   /\ vb \in NumericVersions
   /\ \E p \in PreReleaseIds : va = vb \o <<"-">> \o p)
    => result.ab = "LESS"

\* the answer to a request, from its inputs and the files as they are now
Fresh(req) ==
  IF req.route = "request_file"
  THEN IF mapping.state = "missing" THEN HTTPException(500, "mapping_not_found", None)
       ELSE IF mapping.state = "malformed" THEN HTTPException(500, "mapping_invalid", None)
       ELSE IF req.alias \notin DOMAIN mapping.doc \/ mapping.doc[req.alias] = EmptyStr
       THEN HTTPException(404, "alias_not_found", req.alias)
       ELSE send_file(mapping.doc[req.alias], "file_not_found")
  ELSE IF req.route = "ota"
  THEN IF ota_config.state = "missing" THEN HTTPException(500, "ota_config_not_found", None)
       ELSE IF ota_config.state = "malformed" THEN HTTPException(500, "ota_config_invalid", None)
       ELSE IF req.device_model \notin DOMAIN ota_config.doc
               \/ ota_config.doc[req.device_model] = EmptyDict
       THEN HTTPException(404, "no_policy", req.device_model)
       ELSE IF ~CompletePolicy(req.device_model)
       THEN HTTPException(500, "incomplete_policy", req.device_model)
       ELSE LET policy == ota_config.doc[req.device_model]
                order == compare(req.current_version, policy["latest_version"])
            IN  IF order = "InvalidVersionError" THEN Unhandled("InvalidVersion")
                ELSE IF order # "LESS"
                THEN [status |-> 304, detail |-> "not_modified", filename |-> None]
                ELSE send_file(policy["filename"], "firmware_not_found")
  ELSE [status |-> 200, detail |-> "welcome", filename |-> None]

\* C10: configuration is read afresh by every request: each response is
\* determined by the request's inputs and the contents of mapping.json,
\* ota_config.json and the storage at the time of the request, whatever was
\* requested or answered before.
C10_FreshConfiguration ==
  [][request'.seq # request.seq => response' = Fresh(request')]_vars

\* C10 witness: the alias was remapped by an edit and the next request got
\* the new file
C10_Witness ==
  /\ request.route = "request_file"
  /\ request.alias = LatestFirmware
  /\ response = FileResponse(<<"fw_v2_0_1.bin">>)

====
